---- MODULE Spec2Model ----
(***************************************************************************)
(* Events.ino (MSP430G2553, Energia): a switch on pin S2 is debounced with *)
(* an edge interrupt and the millisecond timer; every debounced press      *)
(* advances a four-state green-LED state machine.                          *)
(*                                                                         *)
(* loop() is modelled statement by statement (pc holds the source line     *)
(* about to execute) because the interrupt handlers falling() and rising() *)
(* and the millisecond tick preempt it between any two statements.         *)
(* A pin transition runs the attached handler to completion in the same    *)
(* step (the handler runs with interrupts disabled).                       *)
(***************************************************************************)
EXTENDS Integers, Sequences, FiniteSets, TLC

---------------------------------------------------------------------------
(* Program constants (#define) *)
DEBOUNCE_TIME == 50
OFF == 0
ON == 1
SLOW_FLASH == 2
FAST_FLASH == 3
SLOW == 1000
FAST == 250

(* Pin levels, as digitalRead returns them and digitalWrite takes them. *)
HIGH == TRUE
LOW == FALSE

(* unsigned long is 32 bits wide; HalfWord is 2^16. *)
HalfWord == 65536

---------------------------------------------------------------------------
(* Bounds of the exploration *)
MaxEdges == 5          \* pin transitions explored
MaxTicks == 5          \* timer advances explored
Reserve == 2           \* advances kept for settling after the last edge
MaxLiveEdges == 3      \* pin transitions explored under fair scheduling
MaxLiveTicks == 4      \* timer advances explored under fair scheduling
MaxCycleEdges == 7     \* pin transitions explored in the four-press cycle
MaxCycleTicks == 7     \* timer advances explored in the four-press cycle
ScenarioEnd == 1010      \* last millisecond of the scripted scenario
WrapLead == 180        \* the timer is at most this far from wrapping at the start
WrapEnd == 180         \* milliseconds explored around the wrap

(* How far the timer advances between two observations of it. *)
TickSteps == {1, DEBOUNCE_TIME, SLOW}
CycleSteps == {FAST + 1}

(* The scripted burst: times (ms) of the falling edges. *)
ScenarioEdges == <<0, 5, 10, 12>>

(* After the silence: the pin rises, then falls again, at these times. *)
ScenarioTail == <<100, 200>>

(* Around the wrap of the timer: the pin falls, rises and falls again this *)
(* many milliseconds after the start.                                      *)
WrapScript == <<0, 60, 120>>

---------------------------------------------------------------------------
VARIABLES
  now,          \* millis(): the millisecond timer (the 32-bit value is Word(now))
  s2,           \* level of the switch pin S2 (pull-up: HIGH idle, LOW pressed)
  isr,          \* handler attached to S2: "falling" (FALLING) or "rising" (RISING)
  last_time, fall_count, rise_count,      \* volatile, shared with the handlers
  pressed, led, flash, last_flash, flash_time, state,
  red_led, green_led,                     \* levels written to RED_LED, GREEN_LED
  serial,       \* the count most recently sent by Serial.println
  pc,           \* source line loop() executes next
  tmp,          \* first operand of millis() - last_time, once evaluated
  hist          \* history of the run (observations only, never read by the program)

prog == <<last_time, fall_count, rise_count, pressed, led, flash, last_flash,
          flash_time, state, red_led, green_led, serial, pc, tmp, isr>>
vars == <<now, s2, prog, hist>>

---------------------------------------------------------------------------
(* unsigned long arithmetic.  A time is held as an integer r congruent to  *)
(* the 32-bit value modulo 2^32 (r < 0 stands for 2^32 + r, a value the    *)
(* timer has before it wraps to 0).  Word(r) is the 32-bit value itself,   *)
(* as the two 16-bit words the MSP430 keeps it in.                         *)
Word(r) == [hi |-> (r \div HalfWord) % HalfWord, lo |-> r % HalfWord]

(* a + b modulo 2^32: add the low words, then the high words with carry. *)
UAdd(a, b) ==
  LET carry == IF a.lo + b.lo >= HalfWord THEN 1 ELSE 0
  IN [hi |-> (a.hi + b.hi + carry) % HalfWord, lo |-> (a.lo + b.lo) % HalfWord]

(* a - b modulo 2^32: subtract the low words, then the high words with     *)
(* borrow.                                                                 *)
USub(a, b) ==
  LET borrow == IF a.lo < b.lo THEN 1 ELSE 0
  IN [hi |-> (a.hi - b.hi - borrow) % HalfWord, lo |-> (a.lo - b.lo) % HalfWord]

(* a > b, unsigned. *)
UGt(a, b) == a.hi > b.hi \/ (a.hi = b.hi /\ a.lo > b.lo)

(* (a - b) > k in 32-bit unsigned arithmetic. *)
UGreater(a, b, k) == UGt(USub(Word(a), Word(b)), Word(k))

(* Mutant: the settle test written as millis() > last_time + DEBOUNCE_TIME. *)
SettledByDeadline(m, t) == UGt(Word(m), UAdd(Word(t), Word(DEBOUNCE_TIME)))

(* Mutant: the settle test written with >= . *)
SettledInclusive(m, t) == UGreater(m, t, DEBOUNCE_TIME - 1)

(* Mutant: the settle test written with < . *)
SettledBelow(m, t) == ~UGreater(m, t, DEBOUNCE_TIME - 1)

(* The settle test of lines 69 and 80: (millis() - last_time) > DEBOUNCE_TIME *)
Settled(m, t) == UGreater(m, t, DEBOUNCE_TIME)

(* The flash test of line 122: millis() - last_flash > flash_time *)
FlashDue(m, lf, ft) == UGreater(m, lf, ft)

---------------------------------------------------------------------------
(* History bookkeeping.  None of it is read by the program's actions.      *)

Max(a, b) == IF a >= b THEN a ELSE b

(* The time recorded for something that has not happened yet: earlier than *)
(* every time of the run.                                                  *)
Never == -HalfWord

(* Time of the most recent handler invocation of either direction. *)
LastEdgeAt(h) == Max(h.lastFallAt, h.lastRiseAt)

(* More than DEBOUNCE_TIME of real time lies between instant t and now. *)
QuietSince(t) == t = Never \/ now - t > DEBOUNCE_TIME

HistInit ==
  [ edges        |-> 0,      \* pin transitions so far
    ticks        |-> 0,      \* timer advances so far
    lastFallAt   |-> Never,  \* time of the latest falling() invocation
    lastRiseAt   |-> Never,  \* time of the latest rising() invocation
    fallsInBurst |-> 0,      \* falling() invocations since fall_count was reset
    risesInBurst |-> 0,      \* rising() invocations since rise_count was reset
    settledEdges |-> 0,      \* invocations of the burst the latest reset closed
    nPressed     |-> 0,      \* Pressed events emitted (pressed = true executed)
    nReleased    |-> 0,      \* Released events reported
    nTransitions |-> 0,      \* times state took a new value
    toggleAt     |-> Never,  \* time of the latest flash toggle (lines 123-124)
    enteredAt    |-> Never,  \* time of ON -> SLOW_FLASH, until the next toggle
    spacingOK    |-> TRUE,   \* every toggle came > flash_time after the one before
    firstOK      |-> TRUE,   \* every first toggle came >= SLOW after ON -> SLOW_FLASH
    emitSettled  |-> TRUE,   \* every event was emitted after its settle time
    bursts       |-> 0,      \* bursts of falling() invocations begun so far
    testBurst    |-> 0,      \* value of bursts when line 69 last read fall_count
    burstPressed |-> 0,      \* times the test of line 69 passed for the current burst
    midBurst     |-> FALSE,  \* a burst went on after the test had passed for it
    reemitOK     |-> TRUE,   \* every repeated event had a fresh, settled edge
    pinSince     |-> 0,      \* time of the latest pin transition
    stable       |-> HIGH,   \* level the pin last held for > DEBOUNCE_TIME
    moved        |-> FALSE,  \* the pin moved since it last held a level that long
    glitch       |-> FALSE,  \* the pin left a level and settled back on it
    physPresses  |-> 0,      \* times the pin became stably LOW
    physReleases |-> 0 ]     \* times the pin became stably HIGH again

(* falling() has just run at time now. *)
HistFalling(h) ==
  LET cont == h.lastFallAt # Never /\ now - h.lastFallAt <= DEBOUNCE_TIME
  IN [h EXCEPT !.lastFallAt = now,
               !.fallsInBurst = @ + 1,
               !.midBurst = @ \/ (cont /\ h.burstPressed > 0),
               !.bursts = IF cont THEN @ ELSE @ + 1,
               !.burstPressed = IF cont THEN @ ELSE 0]

(* rising() has just run at time now. *)
HistRising(h) ==
  [h EXCEPT !.lastRiseAt = now, !.risesInBurst = @ + 1]

(* The pin has just changed level at time now. *)
HistPin(h) == [h EXCEPT !.edges = @ + 1, !.pinSince = now, !.moved = TRUE]

(* The timer has just advanced to t with the pin at level lvl. *)
HistTick(h, t, lvl) ==
  LET held == t - h.pinSince > DEBOUNCE_TIME
      settles == held /\ lvl # h.stable
  IN [h EXCEPT !.ticks = @ + 1,
               !.stable = IF settles THEN lvl ELSE @,
               !.moved = IF held THEN FALSE ELSE @,
               !.glitch = @ \/ (held /\ h.moved /\ lvl = h.stable),
               !.physPresses = IF settles /\ lvl = LOW THEN @ + 1 ELSE @,
               !.physReleases = IF settles /\ lvl = HIGH THEN @ + 1 ELSE @]

(* Line 69 has just read fall_count. *)
HistRead(h) == [h EXCEPT !.testBurst = h.bursts]

(* The test of line 69 has just passed or failed.  Once it passes, lines   *)
(* 70-73 follow and the Pressed event is emitted; the pass is counted for  *)
(* the current burst if the test was begun on this burst (a pass begun on  *)
(* the burst before, which had settled, is that burst's event).            *)
HistTest(h, ok) ==
  [h EXCEPT !.burstPressed = IF ok /\ h.testBurst = h.bursts THEN @ + 1 ELSE @]

(* loop() has just reset fall_count (line 72) / rise_count (line 83). *)
HistResetFall(h) == [h EXCEPT !.settledEdges = h.fallsInBurst, !.fallsInBurst = 0]
HistResetRise(h) == [h EXCEPT !.settledEdges = h.risesInBurst, !.risesInBurst = 0]

(* Lines 91-119 have just run with state = old before and new after. *)
HistService(h, old, new) ==
  [h EXCEPT !.nTransitions = IF new # old THEN @ + 1 ELSE @,
            !.enteredAt = IF old = ON /\ new = SLOW_FLASH THEN now ELSE @]

(* Lines 123-124 have just toggled led and written it to GREEN_LED. *)
HistToggle(h) ==
  [h EXCEPT !.spacingOK = @ /\ (h.toggleAt = Never \/ now - h.toggleAt > flash_time),
            !.firstOK = @ /\ (h.enteredAt = Never \/ now - h.enteredAt >= SLOW),
            !.toggleAt = now,
            !.enteredAt = Never]

(* loop() has just emitted Pressed (line 73); settledEdges counts the      *)
(* falling() invocations since the reset before the one of line 72.        *)
HistPressed(h) ==
  [h EXCEPT !.nPressed = @ + 1,
            !.emitSettled = @ /\ QuietSince(h.lastFallAt),
            !.reemitOK = @ /\ (h.nPressed = 0
                               \/ (h.settledEdges > 0 /\ QuietSince(LastEdgeAt(h))))]

(* loop() has just reported a release (lines 81-82). *)
HistReleased(h) ==
  [h EXCEPT !.nReleased = @ + 1,
            !.emitSettled = @ /\ QuietSince(h.lastRiseAt),
            !.reemitOK = @ /\ (h.nReleased = 0
                               \/ (h.risesInBurst > 0 /\ QuietSince(LastEdgeAt(h))))]

---------------------------------------------------------------------------
(* setup(): the state when loop() is first called. *)
Init ==
  /\ now = 0
  /\ s2 = HIGH
  /\ isr = "falling"
  /\ last_time = 0
  /\ fall_count = 0
  /\ rise_count = 0
  /\ pressed = FALSE
  /\ led = FALSE
  /\ flash = FALSE
  /\ last_flash = 0
  /\ flash_time = 1000
  /\ state = OFF
  /\ red_led = LOW
  /\ green_led = LOW
  /\ serial = 0
  /\ pc = "L69"
  /\ tmp = 0
  /\ hist = HistInit

---------------------------------------------------------------------------
(* Interrupt service routines.  Each runs to completion within the step of *)
(* the pin transition that raises it.                                      *)

falling ==
  /\ fall_count' = fall_count + 1
  /\ last_time' = now
  /\ UNCHANGED rise_count

rising ==
  /\ rise_count' = rise_count + 1
  /\ last_time' = now
  /\ UNCHANGED fall_count

NoInterrupt == UNCHANGED <<fall_count, rise_count, last_time>>

mainOnly == <<pressed, led, flash, last_flash, flash_time, state,
              red_led, green_led, serial, pc, tmp, isr>>

(* The pin goes HIGH -> LOW; falling() runs if it is the attached handler. *)
Fall(maxEdges) ==
  /\ s2 = HIGH
  /\ hist.edges < maxEdges
  /\ s2' = LOW
  /\ IF isr = "falling"
       THEN falling /\ hist' = HistFalling(HistPin(hist))
       ELSE NoInterrupt /\ hist' = HistPin(hist)
  /\ UNCHANGED <<now, mainOnly>>

(* The pin goes LOW -> HIGH; rising() runs if it is the attached handler. *)
Rise(maxEdges) ==
  /\ s2 = LOW
  /\ hist.edges < maxEdges
  /\ s2' = HIGH
  /\ IF isr = "rising"
       THEN rising /\ hist' = HistRising(HistPin(hist))
       ELSE NoInterrupt /\ hist' = HistPin(hist)
  /\ UNCHANGED <<now, mainOnly>>

(* The millisecond timer advances by d. *)
Tick(d) ==
  /\ now' = now + d
  /\ hist' = HistTick(hist, now + d, s2)
  /\ UNCHANGED <<s2, prog>>

---------------------------------------------------------------------------
(* loop(), one action per statement.                                       *)

env == <<now, s2>>
shared == <<last_time, fall_count, rise_count>>

(* Line 69, left operand of &&: read fall_count. *)
L69 ==
  /\ pc = "L69"
  /\ pc' = IF fall_count # 0 THEN "L69a" ELSE "L80"
  /\ hist' = HistRead(hist)
  /\ UNCHANGED <<env, shared, pressed, led, flash, last_flash, flash_time, state,
                 red_led, green_led, serial, tmp, isr>>

(* Line 69, millis() - last_time: the operands are evaluated in either     *)
(* order; the first one evaluated is held in tmp.                          *)
L69a ==
  /\ pc = "L69a"
  /\ \/ tmp' = now /\ pc' = "L69m"
     \/ tmp' = last_time /\ pc' = "L69t"
  /\ UNCHANGED <<env, shared, pressed, led, flash, last_flash, flash_time, state,
                 red_led, green_led, serial, isr, hist>>

(* Line 69: the other operand is evaluated and the difference compared. *)
L69b ==
  /\ pc \in {"L69m", "L69t"}
  /\ LET ok == IF pc = "L69m" THEN Settled(tmp, last_time) ELSE Settled(now, tmp)
     IN /\ pc' = IF ok THEN "L71" ELSE "L80"
        /\ hist' = HistTest(hist, ok)
  /\ tmp' = 0
  /\ UNCHANGED <<env, shared, pressed, led, flash, last_flash, flash_time, state,
                 red_led, green_led, serial, isr>>

(* Lines 70-71: Serial.println(fall_count). *)
L71 ==
  /\ pc = "L71"
  /\ serial' = fall_count
  /\ pc' = "L72"
  /\ UNCHANGED <<env, shared, pressed, led, flash, last_flash, flash_time, state,
                 red_led, green_led, tmp, isr, hist>>

(* Line 72: fall_count = 0. *)
L72 ==
  /\ pc = "L72"
  /\ fall_count' = 0
  /\ hist' = HistResetFall(hist)
  /\ pc' = "L73"
  /\ UNCHANGED <<env, last_time, rise_count, pressed, led, flash, last_flash,
                 flash_time, state, red_led, green_led, serial, tmp, isr>>

(* Line 73: pressed = true. *)
L73 ==
  /\ pc = "L73"
  /\ pressed' = TRUE
  /\ hist' = HistPressed(hist)
  /\ pc' = "L74"
  /\ UNCHANGED <<env, shared, led, flash, last_flash, flash_time, state,
                 red_led, green_led, serial, tmp, isr>>

(* Line 74: if (!digitalRead(S2)). *)
L74 ==
  /\ pc = "L74"
  /\ pc' = IF s2 = LOW THEN "L75" ELSE "L80"
  /\ UNCHANGED <<env, shared, pressed, led, flash, last_flash, flash_time, state,
                 red_led, green_led, serial, tmp, isr, hist>>

(* Mutant: line 75 attaches the falling handler again. *)
L75AttachesFalling ==
  /\ pc = "L75"
  /\ isr' = "falling"
  /\ pc' = "L76"
  /\ UNCHANGED <<env, shared, pressed, led, flash, last_flash, flash_time, state,
                 red_led, green_led, serial, tmp, hist>>

(* Line 75: attachInterrupt(S2, rising, RISING). *)
L75 ==
  /\ pc = "L75"
  /\ isr' = "rising"
  /\ pc' = "L76"
  /\ UNCHANGED <<env, shared, pressed, led, flash, last_flash, flash_time, state,
                 red_led, green_led, serial, tmp, hist>>

(* Mutant: line 76 writes LOW. *)
L76WritesLow ==
  /\ pc = "L76"
  /\ red_led' = LOW
  /\ pc' = "L80"
  /\ UNCHANGED <<env, shared, pressed, led, flash, last_flash, flash_time, state,
                 green_led, serial, tmp, isr, hist>>

(* Line 76: digitalWrite(RED_LED, HIGH). *)
L76 ==
  /\ pc = "L76"
  /\ red_led' = HIGH
  /\ pc' = "L80"
  /\ UNCHANGED <<env, shared, pressed, led, flash, last_flash, flash_time, state,
                 green_led, serial, tmp, isr, hist>>

(* Line 80, left operand of &&: read rise_count. *)
L80 ==
  /\ pc = "L80"
  /\ pc' = IF rise_count # 0 THEN "L80a" ELSE "L91"
  /\ UNCHANGED <<env, shared, pressed, led, flash, last_flash, flash_time, state,
                 red_led, green_led, serial, tmp, isr, hist>>

(* Line 80, millis() - last_time: first operand, in either order. *)
L80a ==
  /\ pc = "L80a"
  /\ \/ tmp' = now /\ pc' = "L80m"
     \/ tmp' = last_time /\ pc' = "L80t"
  /\ UNCHANGED <<env, shared, pressed, led, flash, last_flash, flash_time, state,
                 red_led, green_led, serial, isr, hist>>

(* Line 80: the other operand is evaluated and the difference compared. *)
L80b ==
  /\ pc \in {"L80m", "L80t"}
  /\ LET ok == IF pc = "L80m" THEN Settled(tmp, last_time) ELSE Settled(now, tmp)
     IN pc' = IF ok THEN "L82" ELSE "L91"
  /\ tmp' = 0
  /\ UNCHANGED <<env, shared, pressed, led, flash, last_flash, flash_time, state,
                 red_led, green_led, serial, isr, hist>>

(* Lines 81-82: Serial.println(rise_count). *)
L82 ==
  /\ pc = "L82"
  /\ serial' = rise_count
  /\ hist' = HistReleased(hist)
  /\ pc' = "L83"
  /\ UNCHANGED <<env, shared, pressed, led, flash, last_flash, flash_time, state,
                 red_led, green_led, tmp, isr>>

(* Line 83: rise_count = 0. *)
L83 ==
  /\ pc = "L83"
  /\ rise_count' = 0
  /\ hist' = HistResetRise(hist)
  /\ pc' = "L84"
  /\ UNCHANGED <<env, last_time, fall_count, pressed, led, flash, last_flash,
                 flash_time, state, red_led, green_led, serial, tmp, isr>>

(* Line 84: if (digitalRead(S2)). *)
L84 ==
  /\ pc = "L84"
  /\ pc' = IF s2 = HIGH THEN "L85" ELSE "L91"
  /\ UNCHANGED <<env, shared, pressed, led, flash, last_flash, flash_time, state,
                 red_led, green_led, serial, tmp, isr, hist>>

(* Line 85: attachInterrupt(S2, falling, FALLING). *)
L85 ==
  /\ pc = "L85"
  /\ isr' = "falling"
  /\ pc' = "L86"
  /\ UNCHANGED <<env, shared, pressed, led, flash, last_flash, flash_time, state,
                 red_led, green_led, serial, tmp, hist>>

(* Line 86: digitalWrite(RED_LED, LOW). *)
L86 ==
  /\ pc = "L86"
  /\ red_led' = LOW
  /\ pc' = "L91"
  /\ UNCHANGED <<env, shared, pressed, led, flash, last_flash, flash_time, state,
                 green_led, serial, tmp, isr, hist>>

(* Mutant: the break of line 111 is missing, so that case SLOW_FLASH falls *)
(* through into case FAST_FLASH.                                           *)
TransitionFallThrough(st, fl, ft, g) ==
  CASE st = OFF        -> [state |-> ON, flash |-> fl, flash_time |-> ft, green |-> HIGH]
    [] st = ON         -> [state |-> SLOW_FLASH, flash |-> TRUE, flash_time |-> SLOW,
                           green |-> g]
    [] st = SLOW_FLASH -> [state |-> OFF, flash |-> FALSE, flash_time |-> FAST,
                           green |-> LOW]
    [] st = FAST_FLASH -> [state |-> OFF, flash |-> FALSE, flash_time |-> ft,
                           green |-> LOW]
    [] OTHER           -> [state |-> st, flash |-> fl, flash_time |-> ft, green |-> g]

(* Mutant: case FAST_FLASH does not clear flash (line 113 missing). *)
TransitionFlashLeftOn(st, fl, ft, g) ==
  CASE st = OFF        -> [state |-> ON, flash |-> fl, flash_time |-> ft, green |-> HIGH]
    [] st = ON         -> [state |-> SLOW_FLASH, flash |-> TRUE, flash_time |-> SLOW,
                           green |-> g]
    [] st = SLOW_FLASH -> [state |-> FAST_FLASH, flash |-> TRUE, flash_time |-> FAST,
                           green |-> g]
    [] st = FAST_FLASH -> [state |-> OFF, flash |-> fl, flash_time |-> ft,
                           green |-> LOW]
    [] OTHER           -> [state |-> st, flash |-> fl, flash_time |-> ft, green |-> g]

(* Mutant: case FAST_FLASH does not write GREEN_LED (line 114 missing). *)
TransitionGreenLeftOn(st, fl, ft, g) ==
  CASE st = OFF        -> [state |-> ON, flash |-> fl, flash_time |-> ft, green |-> HIGH]
    [] st = ON         -> [state |-> SLOW_FLASH, flash |-> TRUE, flash_time |-> SLOW,
                           green |-> g]
    [] st = SLOW_FLASH -> [state |-> FAST_FLASH, flash |-> TRUE, flash_time |-> FAST,
                           green |-> g]
    [] st = FAST_FLASH -> [state |-> OFF, flash |-> FALSE, flash_time |-> ft,
                           green |-> g]
    [] OTHER           -> [state |-> st, flash |-> fl, flash_time |-> ft, green |-> g]

(* Mutant: case SLOW_FLASH does not set flash_time (line 108 missing). *)
TransitionIntervalKept(st, fl, ft, g) ==
  CASE st = OFF        -> [state |-> ON, flash |-> fl, flash_time |-> ft, green |-> HIGH]
    [] st = ON         -> [state |-> SLOW_FLASH, flash |-> TRUE, flash_time |-> SLOW,
                           green |-> g]
    [] st = SLOW_FLASH -> [state |-> FAST_FLASH, flash |-> TRUE, flash_time |-> ft,
                           green |-> g]
    [] st = FAST_FLASH -> [state |-> OFF, flash |-> FALSE, flash_time |-> ft,
                           green |-> LOW]
    [] OTHER           -> [state |-> st, flash |-> fl, flash_time |-> ft, green |-> g]

(* Lines 94-118: the switch over state.  The result gives the new state,   *)
(* flash, flash_time and GREEN_LED level; a case writes only some of them. *)
Transition(st, fl, ft, g) ==
  CASE st = OFF        -> [state |-> ON, flash |-> fl, flash_time |-> ft, green |-> HIGH]
    [] st = ON         -> [state |-> SLOW_FLASH, flash |-> TRUE, flash_time |-> SLOW,
                           green |-> g]
    [] st = SLOW_FLASH -> [state |-> FAST_FLASH, flash |-> TRUE, flash_time |-> FAST,
                           green |-> g]
    [] st = FAST_FLASH -> [state |-> OFF, flash |-> FALSE, flash_time |-> ft,
                           green |-> LOW]
    [] OTHER           -> [state |-> st, flash |-> fl, flash_time |-> ft, green |-> g]

(* Mutant: line 114 writes RED_LED instead of GREEN_LED. *)
L91WritesRed ==
  /\ pc = "L91"
  /\ IF pressed
       THEN LET t == Transition(state, flash, flash_time, green_led)
            IN /\ pressed' = FALSE
               /\ state' = t.state
               /\ flash' = t.flash
               /\ flash_time' = t.flash_time
               /\ green_led' = green_led
               /\ red_led' = IF state = FAST_FLASH THEN LOW ELSE red_led
       ELSE UNCHANGED <<pressed, state, flash, flash_time, green_led, red_led>>
  /\ hist' = HistService(hist, state, state')
  /\ pc' = "L122"
  /\ UNCHANGED <<env, shared, led, last_flash, serial, tmp, isr>>

(* Mutant: line 92 is missing, so the pressed flag is never cleared. *)
L91PressedKept ==
  /\ pc = "L91"
  /\ IF pressed
       THEN LET t == Transition(state, flash, flash_time, green_led)
            IN /\ state' = t.state
               /\ flash' = t.flash
               /\ flash_time' = t.flash_time
               /\ green_led' = t.green
       ELSE UNCHANGED <<state, flash, flash_time, green_led>>
  /\ hist' = HistService(hist, state, state')
  /\ pc' = "L122"
  /\ UNCHANGED <<env, shared, pressed, led, last_flash, red_led, serial, tmp, isr>>

(* Lines 91-119: service the pressed flag.  Only loop() touches these      *)
(* variables, so the block is one step.                                    *)
L91 ==
  /\ pc = "L91"
  /\ IF pressed
       THEN LET t == Transition(state, flash, flash_time, green_led)
            IN /\ pressed' = FALSE
               /\ state' = t.state
               /\ flash' = t.flash
               /\ flash_time' = t.flash_time
               /\ green_led' = t.green
       ELSE UNCHANGED <<pressed, state, flash, flash_time, green_led>>
  /\ hist' = HistService(hist, state, state')
  /\ pc' = "L122"
  /\ UNCHANGED <<env, shared, led, last_flash, red_led, serial, tmp, isr>>

(* Line 122: if (flash && (millis() - last_flash > flash_time)). *)
L122 ==
  /\ pc = "L122"
  /\ pc' = IF flash /\ FlashDue(now, last_flash, flash_time) THEN "L123" ELSE "L128"
  /\ UNCHANGED <<env, shared, pressed, led, flash, last_flash, flash_time, state,
                 red_led, green_led, serial, tmp, isr, hist>>

(* Lines 123-124: led = !led; digitalWrite(GREEN_LED, led). *)
L123 ==
  /\ pc = "L123"
  /\ led' = ~led
  /\ green_led' = ~led
  /\ hist' = HistToggle(hist)
  /\ pc' = "L125"
  /\ UNCHANGED <<env, shared, pressed, flash, last_flash, flash_time, state,
                 red_led, serial, tmp, isr>>

(* Line 125: last_flash = millis(). *)
L125 ==
  /\ pc = "L125"
  /\ last_flash' = now
  /\ pc' = "L128"
  /\ UNCHANGED <<env, shared, pressed, led, flash, flash_time, state,
                 red_led, green_led, serial, tmp, isr, hist>>

(* Line 128: loop() returns and is called again. *)
L128 ==
  /\ pc = "L128"
  /\ pc' = "L69"
  /\ UNCHANGED <<env, shared, pressed, led, flash, last_flash, flash_time, state,
                 red_led, green_led, serial, tmp, isr, hist>>

(* Every statement of loop() up to its return. *)
LoopBody ==
  \/ L69 \/ L69a \/ L69b \/ L71 \/ L72 \/ L73 \/ L74 \/ L75 \/ L76
  \/ L80 \/ L80a \/ L80b \/ L82 \/ L83 \/ L84 \/ L85 \/ L86
  \/ L91 \/ L122 \/ L123 \/ L125

---------------------------------------------------------------------------
(* The program with the switch and the timer free to act at any point of   *)
(* loop().  The last Reserve advances of the timer are settle-length ones, *)
(* and the pin moves only while they remain, so that every captured edge   *)
(* can still settle within the explored horizon.                           *)

BoundedTick(maxTicks) ==
  \E d \in TickSteps :
    /\ hist.ticks < maxTicks
    /\ d # DEBOUNCE_TIME => hist.ticks + Reserve < maxTicks
    /\ Tick(d)

PinFall == Fall(MaxEdges) /\ hist.ticks + Reserve <= MaxTicks

PinRise == Rise(MaxEdges) /\ hist.ticks + Reserve <= MaxTicks

TimerTick == BoundedTick(MaxTicks)

Next == PinFall \/ PinRise \/ TimerTick \/ LoopBody \/ L128

Spec == Init /\ [][Next]_vars

---------------------------------------------------------------------------
(* The same program over a longer horizon, with a switch that does not     *)
(* bounce: the pin moves only after it has held its level for longer than  *)
(* DEBOUNCE_TIME, and the timer is observed only in steps that let an edge *)
(* settle or a flash fall due.  The switch and the timer still act at any  *)
(* point of loop().  This leaves room for four presses and the flashing    *)
(* between them.                                                           *)

Held == hist.edges = 0 \/ now - hist.pinSince > DEBOUNCE_TIME

CycleFall == Held /\ Fall(MaxCycleEdges)

CycleRise == Held /\ Rise(MaxCycleEdges)

CycleTick == \E d \in CycleSteps : hist.ticks < MaxCycleTicks /\ Tick(d)

CycleNext == CycleFall \/ CycleRise \/ CycleTick \/ LoopBody \/ L128

CycleSpec == Init /\ [][CycleNext]_vars

---------------------------------------------------------------------------
(* The scripted scenario: falling edges at the times of ScenarioEdges (the *)
(* contact bounces back up between them), then silence, with loop() called *)
(* once per millisecond.  After the silence the switch is released and     *)
(* pressed once more, at the times of ScenarioTail, so that the run goes   *)
(* on through the release branch and the flash service.                    *)

(* Falling edges injected so far, given the pin started HIGH. *)
Injected == (hist.edges + 1) \div 2

(* Pin transitions that make up the burst. *)
BurstEdges == 2 * Len(ScenarioEdges) - 1

ScriptEdges == BurstEdges + Len(ScenarioTail)

(* A scripted falling edge of the burst is due at the present millisecond. *)
EdgeDue == Injected < Len(ScenarioEdges) /\ ScenarioEdges[Injected + 1] = now

(* A scripted transition after the silence is due. *)
TailDue ==
  /\ hist.edges >= BurstEdges
  /\ hist.edges < ScriptEdges
  /\ ScenarioTail[hist.edges - BurstEdges + 1] = now

ScenarioFall == (EdgeDue \/ TailDue) /\ Fall(ScriptEdges)

ScenarioRise == (hist.edges < BurstEdges \/ TailDue) /\ Rise(ScriptEdges)

(* loop() has returned; it is called again one millisecond later. *)
ScenarioPoll ==
  /\ pc = "L128"
  /\ ~EdgeDue
  /\ ~TailDue
  /\ now < ScenarioEnd
  /\ now' = now + 1
  /\ pc' = "L69"
  /\ hist' = HistTick(hist, now + 1, s2)
  /\ UNCHANGED <<s2, shared, pressed, led, flash, last_flash, flash_time, state,
                 red_led, green_led, serial, tmp, isr>>

ScenarioNext == ScenarioFall \/ ScenarioRise \/ ScenarioPoll \/ LoopBody

ScenarioSpec == Init /\ [][ScenarioNext]_vars

---------------------------------------------------------------------------
(* The program under the scheduling the liveness claim assumes: loop()     *)
(* keeps being called and the timer keeps advancing.  The switch and the   *)
(* timer act at any point of loop(), as in Spec, over a shorter horizon.   *)

LiveFall == Fall(MaxLiveEdges) /\ hist.ticks + Reserve <= MaxLiveTicks

LiveRise == Rise(MaxLiveEdges) /\ hist.ticks + Reserve <= MaxLiveTicks

LiveTick == BoundedTick(MaxLiveTicks)

LiveNext == LiveFall \/ LiveRise \/ LiveTick \/ LoopBody \/ L128

LiveSpec ==
  /\ Init
  /\ [][LiveNext]_vars
  /\ WF_vars(LoopBody \/ L128)
  /\ WF_vars(LiveTick)

---------------------------------------------------------------------------
(* The program around the wrap of the millisecond timer.  The program has  *)
(* run untouched since setup() and millis() is 1 to WrapLead milliseconds  *)
(* short of 2^32; the switch is then pressed, released and pressed again   *)
(* at the times of WrapScript, with loop() called once per millisecond, so *)
(* that the timer wraps at every position relative to the edges and to the *)
(* polls that dispatch them.                                               *)

WrapInit ==
  /\ now \in {-k : k \in 1..WrapLead}
  /\ s2 = HIGH
  /\ isr = "falling"
  /\ last_time = 0
  /\ fall_count = 0
  /\ rise_count = 0
  /\ pressed = FALSE
  /\ led = FALSE
  /\ flash = FALSE
  /\ last_flash = 0
  /\ flash_time = 1000
  /\ state = OFF
  /\ red_led = LOW
  /\ green_led = LOW
  /\ serial = 0
  /\ pc = "L69"
  /\ tmp = 0
  /\ hist = [HistInit EXCEPT !.pinSince = Never]

(* A scripted pin transition is due at the present millisecond. *)
WrapEdgeDue ==
  /\ hist.edges < Len(WrapScript)
  /\ WrapScript[hist.edges + 1] = hist.ticks

WrapFall == WrapEdgeDue /\ Fall(Len(WrapScript))

WrapRise == WrapEdgeDue /\ Rise(Len(WrapScript))

(* loop() has returned; it is called again one millisecond later. *)
WrapPoll ==
  /\ pc = "L128"
  /\ ~WrapEdgeDue
  /\ hist.ticks < WrapEnd
  /\ now' = now + 1
  /\ pc' = "L69"
  /\ hist' = HistTick(hist, now + 1, s2)
  /\ UNCHANGED <<s2, shared, pressed, led, flash, last_flash, flash_time, state,
                 red_led, green_led, serial, tmp, isr>>

WrapNext == WrapFall \/ WrapRise \/ WrapPoll \/ LoopBody

WrapSpec == WrapInit /\ [][WrapNext]_vars

---------------------------------------------------------------------------
(* Claims *)

(* C1: while a burst of falling-edge interrupts goes on (each edge at most *)
(* DEBOUNCE_TIME after the one before) loop() emits no Pressed event, and  *)
(* it emits exactly one for the whole burst: no burst goes on after the    *)
(* settle test has passed for it, and the test passes at most once for a   *)
(* burst.  (That the one event is eventually emitted is C9.)               *)
C1_OnePressedPerBurst == ~hist.midBurst /\ hist.burstPressed <= 1

(* C2: the count reported when a burst settles is the number of handler    *)
(* invocations of that burst: right after loop() resets fall_count (line   *)
(* 72) or rise_count (line 83), the number it printed equals the number of *)
(* invocations since the previous reset.                                   *)
C2_ReportedCountExact == pc \in {"L73", "L84"} => serial = hist.settledEdges

(* C3: whenever loop() sets pressed = true or reports a release, more than *)
(* DEBOUNCE_TIME has passed since the latest edge interrupt of that        *)
(* direction.                                                              *)
C3_EmittedAfterSettle == hist.emitSettled

(* The pin rests on a level it has held for more than DEBOUNCE_TIME, and   *)
(* loop() is between two iterations with nothing left to dispatch.         *)
AtRest ==
  /\ pc = "L69"
  /\ fall_count = 0
  /\ rise_count = 0
  /\ ~hist.moved

(* C4: every physical actuation yields exactly one event: when the pin has *)
(* only ever moved as part of a press or a release (bounce included) and   *)
(* the program is at rest, it has emitted one Pressed event per press and  *)
(* one Released event per release.                                         *)
C4_OneEventPerActuation ==
  (AtRest /\ ~hist.glitch) =>
     /\ hist.nPressed = hist.physPresses
     /\ hist.nReleased = hist.physReleases

Flashing == {SLOW_FLASH, FAST_FLASH}

(* C5: after N Pressed events from state S the state is the (N mod 4)-th   *)
(* successor of S in OFF -> ON -> SLOW_FLASH -> FAST_FLASH -> OFF: counted *)
(* from the initial OFF, the state is always the successor numbered by the *)
(* Pressed events serviced so far (every emitted one but a pending one).   *)
C5_NthSuccessor ==
  state = (OFF + hist.nPressed - (IF pressed THEN 1 ELSE 0)) % 4

C5_Witness ==
  /\ pc = "L122"
  /\ hist.nPressed = 4
  /\ ~pressed
  /\ state = OFF

(* C6: the flash service toggles the green output only while state is      *)
(* SLOW_FLASH or FAST_FLASH: every step that changes led, or that finds    *)
(* the toggle about to run, does so in a flashing state.                   *)
C6_ToggleOnlyWhileFlashing ==
  [][(led' # led \/ pc' = "L123") => state \in Flashing]_vars

(* The flash service has just run in OFF, after FAST_FLASH -> OFF, with    *)
(* the interval long expired, and has not toggled.                         *)
C6_Witness ==
  /\ pc = "L128"
  /\ state = OFF
  /\ hist.nPressed = 4
  /\ FlashDue(now, last_flash, flash_time)
  /\ led

(* C7: four Pressed events from OFF bring the state machine back to OFF    *)
(* with flash disabled and GREEN_LED LOW, whatever toggles happened.       *)
C7_RoundTrip ==
  (hist.nPressed = 4 /\ ~pressed) =>
     /\ state = OFF
     /\ ~flash
     /\ green_led = LOW

(* Back in OFF after four events, an odd number of toggles in between. *)
C7_Witness ==
  /\ hist.nPressed = 4
  /\ ~pressed
  /\ state = OFF
  /\ green_led = LOW
  /\ led

(* The scripted silence: from the last edge of the burst to the release. *)
Silence == now < ScenarioTail[1]

LastBurstEdge == ScenarioEdges[Len(ScenarioEdges)]

(* The scripted burst yields exactly one Pressed event, with reported      *)
(* count 4, emitted by the poll at time t.                                 *)
EmittedOnceAt(t) ==
  Silence =>
     /\ now < t => hist.nPressed = 0
     /\ (now > t \/ (now = t /\ pc = "L128")) => hist.nPressed = 1
     /\ hist.nPressed = 1 => serial = Len(ScenarioEdges)

(* C8 as stated: the event is emitted at t = 12 + 50 = 62 ms. *)
C8_EmittedAt62 == EmittedOnceAt(LastBurstEdge + DEBOUNCE_TIME)

(* C8 as amended: the event is emitted at t = 63 ms, the first poll at     *)
(* which millis() - last_time exceeds DEBOUNCE_TIME.                       *)
C8_EmittedAt63 == EmittedOnceAt(LastBurstEdge + DEBOUNCE_TIME + 1)

C8_Witness ==
  /\ pc = "L74"
  /\ now = LastBurstEdge + DEBOUNCE_TIME + 1
  /\ hist.nPressed = 1
  /\ serial = 4

(* C9: a captured edge that no further edge follows is eventually          *)
(* dispatched: a non-zero count is eventually reset to 0, and the reset of *)
(* fall_count is followed by the Pressed event.                            *)
C9_PendingDispatched ==
  /\ (fall_count > 0) ~> (fall_count = 0)
  /\ (rise_count > 0) ~> (rise_count = 0)
  /\ (pc = "L73") ~> (pc = "L74" /\ pressed)

(* A burst of two edges has been dispatched after it had settled. *)
C9_Witness ==
  /\ pc = "L74"
  /\ pressed
  /\ fall_count = 0
  /\ hist.settledEdges = 2
  /\ QuietSince(hist.lastFallAt)

C11_CycleLeavesRed ==
  [][/\ (pc = "L91" /\ pc' = "L122") => red_led' = red_led
     /\ (pc = "L91" /\ pc' = "L122" /\ pressed /\ state = ON) =>
           (state' = SLOW_FLASH /\ flash' /\ flash_time' = SLOW)
     /\ red_led' # red_led => pc \in {"L76", "L86"}]_vars

(* The second Pressed event has just been serviced from ON, RED_LED lit. *)
C11_Witness ==
  /\ pc = "L122"
  /\ hist.nPressed = 2
  /\ ~pressed
  /\ state = SLOW_FLASH
  /\ flash
  /\ flash_time = SLOW
  /\ red_led = HIGH

(* C12 as stated: when the press branch (lines 70-77) ends, the rising     *)
(* handler is attached, and when the release branch (lines 81-87) ends,    *)
(* the falling handler is; one handler is attached at any time.            *)
C12_AlwaysRearmed ==
  /\ [](isr \in {"falling", "rising"})
  /\ [][/\ (pc \in {"L74", "L76"} /\ pc' = "L80") => isr' = "rising"
        /\ (pc \in {"L84", "L86"} /\ pc' = "L91") => isr' = "falling"]_vars

(* C12 as amended: the press branch ends with the rising handler attached  *)
(* when line 74 read the pin LOW and leaves the attached handler as it was *)
(* when it read the pin HIGH; the release branch ends with the falling     *)
(* handler attached when line 84 read the pin HIGH and leaves the handler  *)
(* as it was otherwise; one handler is attached at any time.               *)
C12_RearmedWhenPinAgrees ==
  /\ [](isr \in {"falling", "rising"})
  /\ [][/\ (pc = "L76" /\ pc' = "L80") => isr' = "rising"
        /\ (pc = "L74" /\ pc' = "L80") => (s2 = HIGH /\ isr' = isr)
        /\ (pc = "L86" /\ pc' = "L91") => isr' = "falling"
        /\ (pc = "L84" /\ pc' = "L91") => (s2 = LOW /\ isr' = isr)]_vars

(* A Pressed event has been dispatched with the pin LOW: rising is armed. *)
C12_Witness ==
  /\ pc = "L80"
  /\ pressed
  /\ s2 = LOW
  /\ isr = "rising"
  /\ red_led = HIGH

(* C13: in every reachable state at most one of fall_count and rise_count  *)
(* is non-zero.                                                            *)
C13_AtMostOneCount == ~(fall_count # 0 /\ rise_count # 0)

(* C14 as stated: when the press branch (lines 70-77) ends RED_LED is      *)
(* HIGH, and when the release branch (lines 81-87) ends RED_LED is LOW.    *)
C14_RedFollowsEvent ==
  [][/\ (pc \in {"L74", "L76"} /\ pc' = "L80") => red_led' = HIGH
     /\ (pc \in {"L84", "L86"} /\ pc' = "L91") => red_led' = LOW]_vars

(* C14 as amended: the press branch ends with RED_LED HIGH when line 74    *)
(* read the pin LOW and leaves RED_LED as it was when it read the pin      *)
(* HIGH; the release branch ends with RED_LED LOW when line 84 read the    *)
(* pin HIGH and leaves RED_LED as it was otherwise.                        *)
C14_RedFollowsConfirmedEvent ==
  [][/\ (pc = "L76" /\ pc' = "L80") => red_led' = HIGH
     /\ (pc = "L74" /\ pc' = "L80") => (s2 = HIGH /\ red_led' = red_led)
     /\ (pc = "L86" /\ pc' = "L91") => red_led' = LOW
     /\ (pc = "L84" /\ pc' = "L91") => (s2 = LOW /\ red_led' = red_led)]_vars

(* One press and one release have been dispatched, each confirmed by the   *)
(* pin: RED_LED went HIGH and is LOW again.                                *)
C14_Witness ==
  /\ pc = "L91"
  /\ hist.nPressed = 1
  /\ hist.nReleased = 1
  /\ hist.physReleases = 1
  /\ s2 = HIGH
  /\ isr = "falling"
  /\ red_led = LOW

(* C15: at the end of every loop() iteration flash is enabled if and only  *)
(* if state is SLOW_FLASH or FAST_FLASH, with flash_time = SLOW in         *)
(* SLOW_FLASH and flash_time = FAST in FAST_FLASH.                         *)
C15_FlashIffFlashingState ==
  pc = "L128" =>
     /\ flash <=> state \in Flashing
     /\ state = SLOW_FLASH => flash_time = SLOW
     /\ state = FAST_FLASH => flash_time = FAST

(* An iteration ends in FAST_FLASH, the third Pressed event serviced. *)
C15_Witness ==
  /\ pc = "L128"
  /\ hist.nPressed = 3
  /\ state = FAST_FLASH
  /\ flash
  /\ flash_time = FAST

(* Where loop() is between line 73 and the end of lines 91-119. *)
PressPending ==
  {"L74", "L75", "L76", "L80", "L80a", "L80m", "L80t", "L82", "L83", "L84",
   "L85", "L86", "L91"}

(* C16: state changes only on Pressed events and exactly once per event:   *)
(* state has changed once for every Pressed event emitted (the one still   *)
(* pending aside), an emitted event is pending only until lines 91-119 of  *)
(* the same iteration, and no step but the servicing of a pending event    *)
(* (so no release, flash toggle, timer tick or edge interrupt) changes     *)
(* state.                                                                  *)
C16_OneTransitionPerPressed ==
  /\ [](hist.nTransitions = hist.nPressed - (IF pressed THEN 1 ELSE 0))
  /\ [](pressed => pc \in PressPending)
  /\ [][state' # state => (pc = "L91" /\ pressed)]_vars

(* Two Pressed events and a Released event between them: two transitions. *)
C16_Witness ==
  /\ pc = "L122"
  /\ hist.nPressed = 2
  /\ hist.nReleased = 1
  /\ hist.nTransitions = 2
  /\ state = SLOW_FLASH

(* C17: every flash service step really toggles the output: each time      *)
(* lines 123-124 run, the level of GREEN_LED becomes the opposite of what  *)
(* it was (as it would if led always held the level last written to        *)
(* GREEN_LED), the first toggle after ON -> SLOW_FLASH included.           *)
C17_ToggleChangesLevel ==
  [][(pc = "L123" /\ pc' = "L125") => green_led' # green_led]_vars

(* C18: Pressed and Released events strictly alternate, starting with      *)
(* Pressed: at any time the Pressed events emitted are as many as the      *)
(* Released events, or one more.                                           *)
C18_EventsAlternate ==
  /\ hist.nReleased <= hist.nPressed
  /\ hist.nPressed <= hist.nReleased + 1

(* C19: any two consecutive toggles of the green output are more than the  *)
(* flash_time in force at the second one apart, and the first toggle after *)
(* ON -> SLOW_FLASH comes no earlier than SLOW after that transition.      *)
C19_FlashCadence == hist.spacingOK /\ hist.firstOK

(* C20: the settle test is right across the wrap of the millisecond timer: *)
(* no event is emitted before more than DEBOUNCE_TIME of real time has     *)
(* passed since its edge, and none is put off: a poll leaves a count       *)
(* pending only while at most DEBOUNCE_TIME has passed since the edge.     *)
C20_SettleAcrossWrap ==
  /\ hist.emitSettled
  /\ pc = "L128" =>
        /\ fall_count > 0 => now - hist.lastFallAt <= DEBOUNCE_TIME
        /\ rise_count > 0 => now - hist.lastRiseAt <= DEBOUNCE_TIME

(* The edge was captured before the timer wrapped and is dispatched after  *)
(* the wrap, DEBOUNCE_TIME + 1 ms after the edge.                          *)
C20_Witness ==
  /\ pc = "L74"
  /\ pressed
  /\ hist.lastFallAt < 0
  /\ now >= 0
  /\ now - hist.lastFallAt = DEBOUNCE_TIME + 1
  /\ Word(last_time).hi = HalfWord - 1
  /\ Word(now).hi = 0

====
